---- MODULE Spec2Model ----
(***************************************************************************)
(* Model of the Integration monitor action of camel-k                      *)
(* (pkg/controller/integration/monitor.go): one reconciliation pass        *)
(* (Handle) over an Integration, its Kit, the candidate kits and the pods  *)
(* of the Integration, together with the helpers the pass is made of.      *)
(***************************************************************************)
EXTENDS Integers, Sequences, FiniteSets, TLC

VARIABLES
    integration,   \* the Integration object the next pass is invoked on
    cluster,       \* what the platform API answers: kits, pods, probes, errors
    op,            \* the operation applied last ("init" before any)
    pre,           \* the Integration as it was when that operation started
    res            \* what that operation returned and did

vars == <<integration, cluster, op, pre, res>>

----------------------------------------------------------------------------
(* Bounds of the model *)

\* pods (pending + running) listed in one pass
MaxPods == 2
\* kits in the namespace besides the Integration's own kit
MaxKits == 3
\* references in the configs list of the mount trait
MaxMounts == 2

----------------------------------------------------------------------------
(* Values *)

Nil == "nil"
\* an error is its text, a sequence of strings; the nil error is the empty one
NoErr == <<>>

IntegrationPhaseInitialization == "Initialization"
IntegrationPhaseDeploying == "Deploying"
IntegrationPhaseRunning == "Running"
IntegrationPhaseError == "Error"

IntegrationKitPhaseReady == "Ready"
IntegrationKitPhaseError == "Error"
IntegrationKitPhaseBuilding == "Build Running"

ConditionTrue == "True"
ConditionFalse == "False"

IntegrationConditionReady == "Ready"
IntegrationConditionKitAvailable == "IntegrationKitAvailable"
IntegrationConditionDeploymentAvailable == "DeploymentAvailable"
IntegrationConditionKnativeServiceAvailable == "KnativeServiceAvailable"
IntegrationConditionCronJobAvailable == "CronJobAvailable"

ConditionTypes ==
    { IntegrationConditionReady, IntegrationConditionKitAvailable,
      IntegrationConditionDeploymentAvailable,
      IntegrationConditionKnativeServiceAvailable,
      IntegrationConditionCronJobAvailable }

IntegrationConditionInitializationFailedReason == "InitializationFailed"
IntegrationConditionErrorReason == "Error"
IntegrationConditionRuntimeNotReadyReason == "RuntimeNotReady"
IntegrationConditionMonitoringPodsAvailableReason == "MonitoringPodsAvailable"

PodScheduled == "PodScheduled"
PodReady == "Ready"

HealthCheckStatusUp == "UP"
HealthCheckStatusDown == "DOWN"

IntegrationLabel == "camel.apache.org/integration"

----------------------------------------------------------------------------
(* Sequences *)

RECURSIVE Flatten(_)
Flatten(ss) == IF ss = <<>> THEN <<>> ELSE Head(ss) \o Flatten(Tail(ss))

RECURSIVE SelectIdx(_, _, _)
\* the indexes i >= from of seq, in order, for which keep[i] holds
SelectIdx(keep, from, n) ==
    IF from > n THEN <<>>
    ELSE (IF keep[from] THEN <<from>> ELSE <<>>) \o SelectIdx(keep, from + 1, n)

\* all sequences over S of length at most n
SeqUpTo(S, n) == UNION { [1..k -> S] : k \in 0..n }

----------------------------------------------------------------------------
(* Conditions of the Integration: at most one condition per type *)

NoCond == [status |-> Nil]

Condition(status, reason, message, pods) ==
    [status |-> status, reason |-> reason, message |-> message, pods |-> pods]

GetCondition(i, type) == i.conditions[type]

\* replaces the condition of the same type, keeps those of the other types
SetConditions(i, type, cond) ==
    [i EXCEPT !.conditions[type] = cond]

SetReadyCondition(i, status, reason, message) ==
    SetConditions(i, IntegrationConditionReady, Condition(status, reason, message, <<>>))

SetReadyConditionError(i, message) ==
    SetReadyCondition(i, ConditionFalse, IntegrationConditionErrorReason, message)

IsConditionTrue(i, type) ==
    /\ GetCondition(i, type) # NoCond
    /\ GetCondition(i, type).status = ConditionTrue

----------------------------------------------------------------------------
(* Pods *)

\* the state of one container: pod.Status.(Init)ContainerStatuses[k].State
ContainerState(state, reason) ==
    [state |-> state, reason |-> reason, message |-> <<state, reason>>]

NoState == [state |-> Nil]

\* container.State.Waiting and container.State.Terminated: a pointer each
Waiting(c) == IF c.state = "waiting" THEN c ELSE NoState
Terminated(c) == IF c.state = "terminated" THEN c ELSE NoState

PodCondition(status, reason) ==
    [status |-> status, reason |-> reason, message |-> <<"pod", status, reason>>]

GetPodCondition(pod, type) == pod.conditions[type]

Containers(pod) == pod.initContainerStatuses \o pod.containerStatuses

----------------------------------------------------------------------------
(* arePodsFailingStatuses *)

\* first loop: a pending pod the scheduler could not place
IsUnschedulable(pod) ==
    LET scheduled == GetPodCondition(pod, PodScheduled) IN
    /\ scheduled # NoCond
    /\ scheduled.status = ConditionFalse
    /\ scheduled.reason = "Unschedulable"

\* second loop: a container of a pending pod whose image cannot be pulled
ContainerImagePullBackOff(c) ==
    Waiting(c) # NoState /\ Waiting(c).reason = "ImagePullBackOff"

\* third loop: a container of a running pod that crashes or ended in error
ContainerCrashOrError(c) ==
    \/ Waiting(c) # NoState /\ Waiting(c).reason = "CrashLoopBackOff"
    \/ Terminated(c) # NoState /\ Terminated(c).reason = "Error"

\* third loop: the pods it looks at
NonTerminating(pods) ==
    LET keep == [k \in 1..Len(pods) |-> ~pods[k].deleting] IN
    [k \in 1..Len(SelectIdx(keep, 1, Len(pods))) |-> pods[SelectIdx(keep, 1, Len(pods))[k]]]

FirstIdx(seq, Test(_)) ==
    IF \E k \in 1..Len(seq) : Test(seq[k])
    THEN CHOOSE k \in 1..Len(seq) : Test(seq[k]) /\ \A j \in 1..(k - 1) : ~Test(seq[j])
    ELSE 0

\* as ScanFail, leaving the phase of the Integration as it was
ScanFailKeepPhase(i, message) ==
    [failing |-> TRUE, integration |-> SetReadyConditionError(i, message)]


ScanFail(i, message) ==
    [failing |-> TRUE,
     integration |-> SetReadyConditionError([i EXCEPT !.phase = IntegrationPhaseError], message)]

\* as arePodsFailingStatuses, without the skip of the terminating running pods
arePodsFailingStatusesNoSkip(i, pendingPods, runningPods) ==
    LET unsched == FirstIdx(pendingPods, IsUnschedulable)
        pendingContainers == Flatten([k \in 1..Len(pendingPods) |-> Containers(pendingPods[k])])
        pull == FirstIdx(pendingContainers, ContainerImagePullBackOff)
        runningContainers == Flatten([k \in 1..Len(runningPods) |-> Containers(runningPods[k])])
        crash == FirstIdx(runningContainers, ContainerCrashOrError)
    IN  IF unsched # 0
        THEN ScanFail(i, GetPodCondition(pendingPods[unsched], PodScheduled).message)
        ELSE IF pull # 0
        THEN ScanFail(i, pendingContainers[pull].message)
        ELSE IF crash # 0
        THEN ScanFail(i, runningContainers[crash].message)
        ELSE [failing |-> FALSE, integration |-> i]

arePodsFailingStatuses(i, pendingPods, runningPods) ==
    LET unsched == FirstIdx(pendingPods, IsUnschedulable)
        pendingContainers == Flatten([k \in 1..Len(pendingPods) |-> Containers(pendingPods[k])])
        pull == FirstIdx(pendingContainers, ContainerImagePullBackOff)
        live == NonTerminating(runningPods)
        runningContainers == Flatten([k \in 1..Len(live) |-> Containers(live[k])])
        crash == FirstIdx(runningContainers, ContainerCrashOrError)
    IN  IF unsched # 0
        THEN ScanFail(i, GetPodCondition(pendingPods[unsched], PodScheduled).message)
        ELSE IF pull # 0
        THEN ScanFail(i, pendingContainers[pull].message)
        ELSE IF crash # 0
        THEN ScanFail(i, runningContainers[crash].message)
        ELSE [failing |-> FALSE, integration |-> i]

----------------------------------------------------------------------------
(* probeReadiness *)

IntegrationContainerName == "integration"

\* the container of the pod spec that runs the integration, or NoContainer
NoContainer == [name |-> Nil]

IsIntegrationContainer(c) == c.name = IntegrationContainerName

getIntegrationContainer(pod) ==
    IF FirstIdx(pod.spec, IsIntegrationContainer) = 0 THEN NoContainer
    ELSE pod.spec[FirstIdx(pod.spec, IsIntegrationContainer)]

\* the checks of a 503 body that are not UP, in the order of the body
NotUpAt(checks, idx) == [k \in 1..Len(idx) |-> checks[idx[k]]]

NotUp(checks) ==
    NotUpAt(checks, SelectIdx([k \in 1..Len(checks) |-> checks[k].status # HealthCheckStatusUp],
                              1, Len(checks)))

\* readyCondition.Pods[i] as the loop first fills it: name and PodReady condition
PodEntry(pods, k) ==
    [name |-> <<"pod", ToString(k)>>,
     condition |-> GetPodCondition(pods[k], PodReady),
     health |-> <<>>]

ProbeStart(pods) ==
    [readyPods |-> 0, unreadyPods |-> 0, runtimeReady |-> TRUE, runtimeFailed |-> FALSE,
     err |-> NoErr, pods |-> [k \in 1..Len(pods) |-> [name |-> <<>>, condition |-> NoCond, health |-> <<>>]]]

\* the 503 answer: the body is parsed and every check that is not UP is recorded
ProbeHealth(k, st, answer) ==
    IF ~answer.parses
    THEN [st EXCEPT !.err = <<"health check body does not parse">>]
    ELSE IF NotUp(answer.checks) = <<>>
    THEN st
    ELSE [st EXCEPT !.runtimeReady = FALSE, !.runtimeFailed = TRUE,
                    !.pods[k].health = NotUp(answer.checks)]

\* as ProbeAnswer, with the timeout and the other errors counted as runtime failures
ProbeAnswerFailsRuntime(k, st, answer) ==
    IF answer.err = NoErr
    THEN st
    ELSE IF answer.err = <<"DeadlineExceeded">>
    THEN [st EXCEPT !.runtimeReady = FALSE, !.runtimeFailed = TRUE,
                    !.pods[k].condition.message = <<"readiness probe timed out", ToString(k)>>]
    ELSE IF answer.err # <<"ServiceUnavailable">>
    THEN [st EXCEPT !.runtimeReady = FALSE, !.runtimeFailed = TRUE,
                    !.pods[k].condition.message = <<"readiness probe failed", ToString(k)>> \o answer.err]
    ELSE ProbeHealth(k, st, answer)

\* as ProbeAnswer, counting as ready a pod whose probe answers without error
ProbeAnswerCountsWarm(k, st, answer) ==
    IF answer.err = NoErr
    THEN [st EXCEPT !.readyPods = @ + 1]
    ELSE IF answer.err = <<"DeadlineExceeded">>
    THEN [st EXCEPT !.runtimeReady = FALSE,
                    !.pods[k].condition.message = <<"readiness probe timed out", ToString(k)>>]
    ELSE IF answer.err # <<"ServiceUnavailable">>
    THEN [st EXCEPT !.runtimeReady = FALSE,
                    !.pods[k].condition.message = <<"readiness probe failed", ToString(k)>> \o answer.err]
    ELSE ProbeHealth(k, st, answer)

\* the answer of the proxied HTTP probe of a pod that is not ready
ProbeAnswer(k, st, answer) ==
    IF answer.err = NoErr
    THEN st
    ELSE IF answer.err = <<"DeadlineExceeded">>
    THEN [st EXCEPT !.runtimeReady = FALSE,
                    !.pods[k].condition.message = <<"readiness probe timed out", ToString(k)>>]
    ELSE IF answer.err # <<"ServiceUnavailable">>
    THEN [st EXCEPT !.runtimeReady = FALSE,
                    !.pods[k].condition.message = <<"readiness probe failed", ToString(k)>> \o answer.err]
    ELSE ProbeHealth(k, st, answer)

\* a pod that is not ready: its integration container and its readiness probe
ProbeUnready(pod, k, st, container) ==
    IF container = NoContainer
    THEN [st EXCEPT !.err = <<"integration container not found in Pod", ToString(k)>>]
    ELSE IF ~container.httpGet
    THEN st
    ELSE ProbeAnswer(k, st, pod.probe)

ProbePod(pod, k, st) ==
    IF GetPodCondition(pod, PodReady).status = ConditionTrue
    THEN [st EXCEPT !.readyPods = @ + 1]
    ELSE ProbeUnready(pod, k, [st EXCEPT !.unreadyPods = @ + 1], getIntegrationContainer(pod))

\* one iteration of the loop over the pods
ProbeOne(pods, k, st) ==
    ProbePod(pods[k], k, [st EXCEPT !.pods[k] = PodEntry(pods, k)])

RECURSIVE ProbeLoop(_, _, _)
\* the loop stops at the first pod that makes the function return an error
ProbeLoop(pods, k, st) ==
    IF k > Len(pods) \/ st.err # NoErr THEN st
    ELSE ProbeLoop(pods, k + 1, ProbeOne(pods, k, st))

\* fmt.Sprintf("%d/%d pods are not ready", unreadyPods, unreadyPods+readyPods)
NotReadyMessage(st) ==
    <<ToString(st.unreadyPods), "/", ToString(st.unreadyPods + st.readyPods), "pods are not ready">>

ProbeCondition(st, reason) ==
    Condition(ConditionFalse, reason, NotReadyMessage(st), st.pods)

\* as ProbeNotReady, with the Ready condition as the only condition left
ProbeNotReadyAlone(i, st) ==
    IF ~st.runtimeReady
    THEN [i EXCEPT !.conditions =
              [t \in DOMAIN i.conditions |->
                  IF t = IntegrationConditionReady
                  THEN ProbeCondition(st, IntegrationConditionRuntimeNotReadyReason)
                  ELSE NoCond]]
    ELSE i

\* the second trailing if statement: '!runtimeReady'
ProbeNotReady(i, st) ==
    IF ~st.runtimeReady
    THEN SetConditions(i, IntegrationConditionReady,
                       ProbeCondition(st, IntegrationConditionRuntimeNotReadyReason))
    ELSE i

\* the two trailing if statements: 'runtimeFailed' first, '!runtimeReady' second
ProbeConditions(i, st) ==
    ProbeNotReady(IF st.runtimeFailed
                  THEN SetConditions(i, IntegrationConditionReady,
                                     ProbeCondition(st, IntegrationConditionErrorReason))
                  ELSE i,
                  st)

ProbeReturn(i, st) ==
    IF st.err # NoErr
    THEN [readyPods |-> st.readyPods, probeOk |-> FALSE, err |-> st.err,
          runtimeFailed |-> st.runtimeFailed, integration |-> i]
    ELSE [readyPods |-> st.readyPods,
          probeOk |-> ~st.runtimeFailed /\ st.runtimeReady,
          err |-> NoErr,
          runtimeFailed |-> st.runtimeFailed,
          integration |-> ProbeConditions(i, st)]

probeReadiness(i, pods) == ProbeReturn(i, ProbeLoop(pods, 1, ProbeStart(pods)))

----------------------------------------------------------------------------
(* Kits and their priority label *)

IntegrationKitPriorityLabel == "camel.apache.org/kit.priority"

Digits == <<"0", "1", "2", "3", "4", "5", "6", "7", "8", "9">>

IsDigit(c) == \E d \in 1..Len(Digits) : Digits[d] = c

DigitValue(c) == (CHOOSE d \in 1..Len(Digits) : Digits[d] = c) - 1

RECURSIVE DecimalValue(_)
DecimalValue(text) ==
    IF text = <<>> THEN 0
    ELSE 10 * DecimalValue(SubSeq(text, 1, Len(text) - 1)) + DigitValue(text[Len(text)])

\* strconv.Atoi on a label value (a label value cannot start with a sign)
Atoi(text) ==
    IF text # <<>> /\ \A k \in 1..Len(text) : IsDigit(text[k])
    THEN [ok |-> TRUE, val |-> DecimalValue(text)]
    ELSE [ok |-> FALSE, val |-> 0]

HasLabel(kit, key) == key \in DOMAIN kit.labels

\* kit.Labels[key]: the empty string when the label is missing
Label(kit, key) == IF HasLabel(kit, key) THEN kit.labels[key] ELSE <<>>

\* labels.NewRequirement(key, GreaterThan, {value}): fails unless value is an integer
NewRequirement(value) ==
    [ok |-> Atoi(value).ok, than |-> Atoi(value).val]

\* the requirement matches a kit whose label is an integer greater than its value
RequirementMatches(req, kit) ==
    /\ HasLabel(kit, IntegrationKitPriorityLabel)
    /\ Atoi(Label(kit, IntegrationKitPriorityLabel)).ok
    /\ Atoi(Label(kit, IntegrationKitPriorityLabel)).val > req.than

\* the kits of the namespace that fit the Integration and match the selector
lookupKitsForIntegration(c, req) ==
    LET keep == [k \in 1..Len(c.kits) |-> c.kits[k].fits /\ RequirementMatches(req, c.kits[k])] IN
    [k \in 1..Len(SelectIdx(keep, 1, Len(c.kits))) |-> c.kits[SelectIdx(keep, 1, Len(c.kits))[k]]]

NoKit == [name |-> 0]

RECURSIVE FindLoop(_, _, _)
\* the loop of findHighestPriorityReadyKit from index k on
FindLoop(kits, k, st) ==
    IF k > Len(kits) \/ ~st.ok THEN st
    ELSE IF kits[k].phase # IntegrationKitPhaseReady
    THEN FindLoop(kits, k + 1, st)
    ELSE LET p == Atoi(Label(kits[k], IntegrationKitPriorityLabel)) IN
         IF ~p.ok
         THEN [ok |-> FALSE, kit |-> NoKit, priority |-> st.priority]
         ELSE IF p.val > st.priority
         THEN FindLoop(kits, k + 1, [ok |-> TRUE, kit |-> kits[k], priority |-> p.val])
         ELSE FindLoop(kits, k + 1, st)

\* as findHighestPriorityReadyKit, taking the first ready kit instead of the highest
findFirstReadyKit(kits) ==
    LET idx == FirstIdx(kits, LAMBDA k : k.phase = IntegrationKitPhaseReady) IN
    IF idx = 0 THEN [ok |-> TRUE, kit |-> NoKit, priority |-> 0]
    ELSE IF ~Atoi(Label(kits[idx], IntegrationKitPriorityLabel)).ok
    THEN [ok |-> FALSE, kit |-> NoKit, priority |-> 0]
    ELSE [ok |-> TRUE, kit |-> kits[idx],
          priority |-> Atoi(Label(kits[idx], IntegrationKitPriorityLabel)).val]

\* as findHighestPriorityReadyKit, reading the label of every kit, ready or not
findHighestPriorityKitReadingAll(kits) ==
    IF \E k \in 1..Len(kits) : ~Atoi(Label(kits[k], IntegrationKitPriorityLabel)).ok
    THEN [ok |-> FALSE, kit |-> NoKit, priority |-> 0]
    ELSE FindLoop(kits, 1, [ok |-> TRUE, kit |-> NoKit, priority |-> 0])


findHighestPriorityReadyKit(kits) ==
    IF Len(kits) = 0 THEN [ok |-> TRUE, kit |-> NoKit, priority |-> 0]
    ELSE FindLoop(kits, 1, [ok |-> TRUE, kit |-> NoKit, priority |-> 0])

\* GetIntegrationKit by the name of the reference
GetIntegrationKit(c, name) ==
    IF \E k \in 1..Len(c.kits) : c.kits[k].name = name
    THEN c.kits[CHOOSE k \in 1..Len(c.kits) : c.kits[k].name = name]
    ELSE NoKit

SetIntegrationKit(i, kit) == [i EXCEPT !.kit = kit.name]

----------------------------------------------------------------------------
(* The digest and the reset of the Integration *)

\* the resource versions of the configmaps and secrets mounted with hot reload
MountedVersions(i, c, storage) ==
    LET merged == i.spec.mount.configs \o i.spec.mount.resources
        keep == [k \in 1..Len(merged) |-> merged[k].storage = storage]
        idx == SelectIdx(keep, 1, Len(merged))
    IN  [k \in 1..Len(idx) |-> c.resourceVersion[merged[idx[k]]]]

getIntegrationSecretAndConfigmapResourceVersions(i, c) ==
    IF i.spec.mount.set /\ i.spec.mount.hotReload
    THEN [secrets |-> MountedVersions(i, c, "secret"),
          configmaps |-> MountedVersions(i, c, "configmap")]
    ELSE [secrets |-> <<>>, configmaps |-> <<>>]

\* the hash of the spec and of the two lists, in the order they are passed
ComputeForIntegration(i, configmaps, secrets) ==
    [spec |-> i.spec, configmaps |-> configmaps, secrets |-> secrets]

Initialize(i) == [i EXCEPT !.phase = IntegrationPhaseInitialization]

AnnotationChanged(i, kit, key) ==
    i.annotations[key] # "" /\ i.annotations[key] # kit.annotations[key]

\* as isIntegrationKitResetRequired, without the check of the profile namespace
isIntegrationKitResetRequiredNoNamespace(i, kit) ==
    IF kit = NoKit THEN FALSE
    ELSE IF AnnotationChanged(i, kit, "operator.id") THEN TRUE
    ELSE IF AnnotationChanged(i, kit, "integration-profile.id") THEN TRUE
    ELSE FALSE

isIntegrationKitResetRequired(i, kit) ==
    IF kit = NoKit THEN FALSE
    ELSE IF AnnotationChanged(i, kit, "operator.id") THEN TRUE
    ELSE IF AnnotationChanged(i, kit, "integration-profile.id") THEN TRUE
    ELSE IF AnnotationChanged(i, kit, "integration-profile.namespace") THEN TRUE
    ELSE FALSE

\* what checkDigestAndRebuild reports: changed = FALSE stands for a nil Integration
DigestResult(changed, err, kitReset, hash, i) ==
    [changed |-> changed, err |-> err, kitReset |-> kitReset, hash |-> hash, integration |-> i]

\* as ResetIntegration, without storing the new digest
ResetIntegrationNoStore(i, hash, reset) ==
    DigestResult(TRUE, NoErr, reset, hash,
                 Initialize(IF reset THEN SetIntegrationKit(i, NoKit) ELSE i))

\* the branch of a changed digest: kit reset, Initialize, new digest
ResetIntegration(i, hash, reset) ==
    DigestResult(TRUE, NoErr, reset, hash,
                 [Initialize(IF reset THEN SetIntegrationKit(i, NoKit) ELSE i)
                      EXCEPT !.digest = hash])

\* as CompareDigest, resetting the Integration whatever the digest is
CompareDigestAlways(i, kit, c, hash) ==
    IF c.digestErr
    THEN DigestResult(FALSE, <<"digest">>, FALSE, hash, i)
    ELSE ResetIntegration(i, hash, isIntegrationKitResetRequired(i, kit))

\* the error of the digest function, then the comparison with the stored digest
CompareDigest(i, kit, c, hash) ==
    IF c.digestErr
    THEN DigestResult(FALSE, <<"digest">>, FALSE, hash, i)
    ELSE IF hash # i.digest
    THEN ResetIntegration(i, hash, isIntegrationKitResetRequired(i, kit))
    ELSE DigestResult(FALSE, NoErr, FALSE, hash, i)

HashOf(i, rv) == ComputeForIntegration(i, rv.configmaps, rv.secrets)

checkDigestAndRebuild(i, kit, c) ==
    CompareDigest(i, kit, c, HashOf(i, getIntegrationSecretAndConfigmapResourceVersions(i, c)))

----------------------------------------------------------------------------
(* The trait pipeline and the workload controller *)

\* as Apply, with the error of the catalog dropped
ApplyIgnoringErrors(i, kit, c) ==
    IF c.platformErr
    THEN [err |-> <<"no platform">>, resources |-> <<>>]
    ELSE [err |-> NoErr, resources |-> c.resources]

\* trait.Apply: the environment is built first, then the catalog is applied
Apply(i, kit, c) ==
    IF c.platformErr
    THEN [err |-> <<"no platform">>, resources |-> <<>>]
    ELSE IF c.traitErr
    THEN [err |-> <<"error during trait customization before deployment", "trait">>,
          resources |-> <<>>]
    ELSE [err |-> NoErr, resources |-> c.resources]

NoObject == [kind |-> Nil]

\* env.Resources.GetController: the first object of the kind, if any
getUpdatedController(resources, kind) ==
    LET idx == FirstIdx(resources, LAMBDA o : o.kind = kind)
    IN  IF idx = 0 THEN NoObject ELSE resources[idx]

\* as ControllerOf, taking the first object of the resources whatever its kind
ControllerOfAnyKind(resources, kind) ==
    IF resources = <<>>
    THEN [err |-> <<"type assertion failed, not a", kind>>, obj |-> NoObject]
    ELSE [err |-> NoErr, obj |-> resources[1]]


ControllerOf(resources, kind) ==
    LET obj == getUpdatedController(resources, kind) IN
    IF obj = NoObject
    THEN [err |-> <<"type assertion failed, not a", kind>>, obj |-> NoObject]
    ELSE [err |-> NoErr, obj |-> obj]

newController(resources, i) ==
    IF IsConditionTrue(i, IntegrationConditionDeploymentAvailable)
    THEN ControllerOf(resources, "Deployment")
    ELSE IF IsConditionTrue(i, IntegrationConditionKnativeServiceAvailable)
    THEN ControllerOf(resources, "KnativeService")
    ELSE IF IsConditionTrue(i, IntegrationConditionCronJobAvailable)
    THEN ControllerOf(resources, "CronJob")
    ELSE [err |-> <<"unsupported controller for integration">>, obj |-> NoObject]

hasTemplateIntegrationLabel(controller) == controller.hasLabel

getControllerName(controller) == controller.kind

checkReadyCondition(controller) == [done |-> controller.done, err |-> controller.verdictErr]

updateReadyCondition(controller, readyPods) == readyPods >= controller.minReady

----------------------------------------------------------------------------
(* Readiness reconciliation *)

NoProbe == [readyPods |-> 0, probeOk |-> FALSE, err |-> <<"not called">>, runtimeFailed |-> FALSE]

ProbeResult(probe) ==
    [readyPods |-> probe.readyPods, probeOk |-> probe.probeOk, err |-> probe.err,
     runtimeFailed |-> probe.runtimeFailed]

\* what updateIntegrationPhaseAndReadyCondition reports: its error, the Integration
\* as it left it, and the steps it went through
Reconciled(err, i, steps, terminal, failing, probe, met) ==
    [err |-> err, integration |-> i, steps |-> steps, terminal |-> terminal,
     failing |-> failing, probe |-> probe, met |-> met]

\* as ReconcilePhase, without the phase set when the controller's threshold is met
ReconcilePhaseNoRunning(controller, verdict, scan, probe) ==
    IF verdict.done \/ verdict.err # NoErr
    THEN Reconciled(verdict.err, probe.integration, {"verdict", "probe"}, TRUE, FALSE,
                    ProbeResult(probe), FALSE)
    ELSE IF scan.failing
    THEN Reconciled(NoErr, scan.integration, {"verdict", "scan"}, FALSE, TRUE, NoProbe, FALSE)
    ELSE IF probe.err # NoErr
    THEN Reconciled(probe.err, probe.integration, {"verdict", "scan", "probe"}, FALSE, FALSE,
                    ProbeResult(probe), FALSE)
    ELSE IF ~probe.probeOk
    THEN Reconciled(NoErr, [probe.integration EXCEPT !.phase = IntegrationPhaseError],
                    {"verdict", "scan", "probe"}, FALSE, FALSE, ProbeResult(probe), FALSE)
    ELSE Reconciled(NoErr, probe.integration, {"verdict", "scan", "probe", "threshold"},
                    FALSE, FALSE, ProbeResult(probe),
                    updateReadyCondition(controller, probe.readyPods))

\* as ReconcilePhase, returning the error of the probe after a terminal verdict
\* without error
ReconcilePhaseProbeError(controller, verdict, scan, probe) ==
    IF verdict.done \/ verdict.err # NoErr
    THEN Reconciled(IF verdict.err # NoErr THEN verdict.err ELSE probe.err, probe.integration,
                    {"verdict", "probe"}, TRUE, FALSE, ProbeResult(probe), FALSE)
    ELSE IF scan.failing
    THEN Reconciled(NoErr, scan.integration, {"verdict", "scan"}, FALSE, TRUE, NoProbe, FALSE)
    ELSE IF probe.err # NoErr
    THEN Reconciled(probe.err, probe.integration, {"verdict", "scan", "probe"}, FALSE, FALSE,
                    ProbeResult(probe), FALSE)
    ELSE IF ~probe.probeOk
    THEN Reconciled(NoErr, [probe.integration EXCEPT !.phase = IntegrationPhaseError],
                    {"verdict", "scan", "probe"}, FALSE, FALSE, ProbeResult(probe), FALSE)
    ELSE IF updateReadyCondition(controller, probe.readyPods)
    THEN Reconciled(NoErr, [probe.integration EXCEPT !.phase = IntegrationPhaseRunning],
                    {"verdict", "scan", "probe", "threshold"}, FALSE, FALSE,
                    ProbeResult(probe), TRUE)
    ELSE Reconciled(NoErr, probe.integration, {"verdict", "scan", "probe", "threshold"},
                    FALSE, FALSE, ProbeResult(probe), FALSE)

\* the body of updateIntegrationPhaseAndReadyCondition over the controller's
\* verdict, the outcome of the pod scan and the outcome of the probe
ReconcilePhase(controller, verdict, scan, probe) ==
    IF verdict.done \/ verdict.err # NoErr
    THEN Reconciled(verdict.err, probe.integration, {"verdict", "probe"}, TRUE, FALSE,
                    ProbeResult(probe), FALSE)
    ELSE IF scan.failing
    THEN Reconciled(NoErr, scan.integration, {"verdict", "scan"}, FALSE, TRUE, NoProbe, FALSE)
    ELSE IF probe.err # NoErr
    THEN Reconciled(probe.err, probe.integration, {"verdict", "scan", "probe"}, FALSE, FALSE,
                    ProbeResult(probe), FALSE)
    ELSE IF ~probe.probeOk
    THEN Reconciled(NoErr, [probe.integration EXCEPT !.phase = IntegrationPhaseError],
                    {"verdict", "scan", "probe"}, FALSE, FALSE, ProbeResult(probe), FALSE)
    ELSE IF updateReadyCondition(controller, probe.readyPods)
    THEN Reconciled(NoErr, [probe.integration EXCEPT !.phase = IntegrationPhaseRunning],
                    {"verdict", "scan", "probe", "threshold"}, FALSE, FALSE,
                    ProbeResult(probe), TRUE)
    ELSE Reconciled(NoErr, probe.integration, {"verdict", "scan", "probe", "threshold"},
                    FALSE, FALSE, ProbeResult(probe), FALSE)

updateIntegrationPhaseAndReadyCondition(controller, i, pendingPods, runningPods) ==
    ReconcilePhase(controller, checkReadyCondition(controller),
                   arePodsFailingStatuses(i, pendingPods, runningPods),
                   probeReadiness(i, runningPods))

----------------------------------------------------------------------------
(* One pass: Handle *)

CanHandle(i) ==
    \/ i.phase = IntegrationPhaseDeploying
    \/ i.phase = IntegrationPhaseRunning
    \/ i.phase = IntegrationPhaseError

\* as isInInitializationFailed, comparing the reason with the error reason
isInInitializationFailedWrongReason(i) ==
    IF i.phase # IntegrationPhaseError THEN FALSE
    ELSE /\ GetCondition(i, IntegrationConditionReady) # NoCond
         /\ GetCondition(i, IntegrationConditionReady).status = ConditionFalse
         /\ GetCondition(i, IntegrationConditionReady).reason = IntegrationConditionErrorReason

isInInitializationFailed(i) ==
    IF i.phase # IntegrationPhaseError THEN FALSE
    ELSE /\ GetCondition(i, IntegrationConditionReady) # NoCond
         /\ GetCondition(i, IntegrationConditionReady).status = ConditionFalse
         /\ GetCondition(i, IntegrationConditionReady).reason = IntegrationConditionInitializationFailedReason

isInIntegrationKitFailed(i) ==
    /\ GetCondition(i, IntegrationConditionKitAvailable) # NoCond
    /\ GetCondition(i, IntegrationConditionKitAvailable).status = ConditionFalse
    /\ i.phase # IntegrationPhaseError

\* what a pass reports: the returned Integration (returned = FALSE for nil), the
\* error, the object as the pass left it, and the steps the pass went through
Result(i) ==
    [returned |-> FALSE, err |-> NoErr, integration |-> i, steps |-> {},
     changed |-> FALSE, kitReset |-> FALSE, hash |-> [spec |-> Nil],
     candidates |-> <<>>, selected |-> NoKit,
     terminal |-> FALSE, failing |-> FALSE, probe |-> NoProbe, met |-> FALSE]

Selector(i) == <<IntegrationLabel, "=", i.name>>

\* as CountNonTerminating, counting the pods that are being deleted too
CountRunning(pods) == Len(pods)

\* the non-terminating pods of the running list, counted as the loop counts them
CountNonTerminating(pods) == Len(NonTerminating(pods))

\* as UpdateReplicas, without the step from Deploying to Running
UpdateReplicasOnly(i, podCount) == [i EXCEPT !.replicas = <<podCount>>]

\* the replicas count, then the step from Deploying to Running
UpdateReplicas(i, podCount) ==
    [i EXCEPT !.replicas = <<podCount>>,
              !.phase = IF @ = IntegrationPhaseDeploying THEN IntegrationPhaseRunning ELSE @]

\* the end of monitorPods: the error of the reconciliation, or the Integration
MonitorReturn(r, upd) ==
    [r EXCEPT !.returned = (upd.err = NoErr), !.err = upd.err,
              !.integration = upd.integration,
              !.steps = @ \cup {"list", "census"} \cup upd.steps,
              !.terminal = upd.terminal, !.failing = upd.failing,
              !.probe = upd.probe, !.met = upd.met]

\* the two pod lists, the census and the reconciliation; i carries the selector
MonitorLists(r, controller, i, c) ==
    IF c.listPendingErr
    THEN [r EXCEPT !.err = <<"list pending pods">>, !.integration = i, !.steps = @ \cup {"list"}]
    ELSE IF c.listRunningErr
    THEN [r EXCEPT !.err = <<"list running pods">>, !.integration = i, !.steps = @ \cup {"list"}]
    ELSE MonitorReturn(r,
             updateIntegrationPhaseAndReadyCondition(controller,
                 UpdateReplicas(i, Len(c.pendingPods) + CountNonTerminating(c.runningPods)),
                 c.pendingPods, c.runningPods))

MissingLabel(i, controller) ==
    Condition(ConditionFalse, IntegrationConditionMonitoringPodsAvailableReason,
              <<"Could not find label in the template", i.name, getControllerName(controller)>>,
              <<>>)

\* as MonitorController, going on to the pod lists without the label
MonitorControllerAnyTemplate(r, ctl, i, c) ==
    IF ctl.err # NoErr
    THEN [r EXCEPT !.err = ctl.err]
    ELSE MonitorLists(r, ctl.obj, [i EXCEPT !.selector = Selector(i)], c)

\* monitorPods once the controller is resolved
MonitorController(r, ctl, i, c) ==
    IF ctl.err # NoErr
    THEN [r EXCEPT !.err = ctl.err]
    ELSE IF ~hasTemplateIntegrationLabel(ctl.obj)
    THEN [r EXCEPT !.returned = TRUE,
                   !.integration = SetConditions(i, IntegrationConditionReady,
                                                 MissingLabel(i, ctl.obj))]
    ELSE MonitorLists(r, ctl.obj, [i EXCEPT !.selector = Selector(i)], c)

monitorPods(r, resources, i, c) ==
    MonitorController([r EXCEPT !.steps = @ \cup {"controller"}], newController(resources, i), i, c)

\* the end of Handle: the failure of the trait pipeline, or monitorPods
HandleTraits(r, i, c, environment) ==
    IF environment.err # NoErr
    THEN [r EXCEPT !.returned = TRUE, !.err = environment.err,
                   !.integration = SetReadyCondition([i EXCEPT !.phase = IntegrationPhaseError],
                                       ConditionFalse,
                                       IntegrationConditionInitializationFailedReason,
                                       environment.err)]
    ELSE monitorPods(r, environment.resources, i, c)

\* the kit of higher priority, if any, becomes the kit of the Integration; the
\* traits run with the kit the pass has read
HandleSelected(r, i, kit, c) ==
    HandleTraits([r EXCEPT !.integration = i, !.steps = @ \cup {"traits"}], i, c, Apply(i, kit, c))

HandleFound(r, i, kit, c, found) ==
    IF ~found.ok
    THEN [r EXCEPT !.err = <<"invalid priority label">>]
    ELSE HandleSelected([r EXCEPT !.selected = found.kit],
                        IF found.kit # NoKit THEN SetIntegrationKit(i, found.kit) ELSE i,
                        kit, c)

HandleCandidates(r, i, kit, c, kits) ==
    HandleFound([r EXCEPT !.candidates = kits], i, kit, c, findHighestPriorityReadyKit(kits))

HandleRequirement(r, i, kit, c, withHigherPriority) ==
    IF ~withHigherPriority.ok
    THEN [r EXCEPT !.err = <<"invalid priority requirement">>]
    ELSE IF c.lookupErr
    THEN [r EXCEPT !.err = <<"kit lookup">>]
    ELSE HandleCandidates(r, i, kit, c, lookupKitsForIntegration(c, withHigherPriority))

\* the priority the upgrade check starts from
KitPriority(kit) ==
    IF HasLabel(kit, IntegrationKitPriorityLabel)
    THEN Label(kit, IntegrationKitPriorityLabel) ELSE <<"0">>

\* the kit upgrade check and what follows it
HandleKit(r, i, kit, c) ==
    HandleRequirement([r EXCEPT !.steps = @ \cup {"upgrade"}], i, kit, c,
                      NewRequirement(KitPriority(kit)))

\* the outcome of checkDigestAndRebuild as the outcome of the pass
HandleDigest(r, d, steps) ==
    [r EXCEPT !.returned = d.changed, !.err = d.err, !.integration = d.integration,
              !.changed = d.changed, !.kitReset = d.kitReset, !.hash = d.hash,
              !.steps = steps]

HandleChecked(r, i, kit, c, digest) ==
    IF digest.err # NoErr \/ digest.changed
    THEN HandleDigest(r, digest, {"kit", "digest"})
    ELSE HandleKit(HandleDigest(r, digest, {"kit", "digest"}), i, kit, c)

HandleWithKit(r, i, kit, c) ==
    IF kit = NoKit
    THEN [r EXCEPT !.err = <<"unable to find integration kit">>, !.steps = {"kit"}]
    ELSE IF isInIntegrationKitFailed(i) /\ kit.phase = IntegrationKitPhaseError
    THEN [r EXCEPT !.steps = {"kit"}]
    ELSE HandleChecked(r, i, kit, c, checkDigestAndRebuild(i, kit, c))

Handle(i, c) ==
    IF isInInitializationFailed(i)
    THEN HandleDigest(Result(i), checkDigestAndRebuild(i, NoKit, c), {"digest"})
    ELSE IF i.kit = NoKit.name
    THEN [Result(i) EXCEPT !.err = <<"no kit set on integration">>]
    ELSE HandleWithKit(Result(i), i, GetIntegrationKit(c, i.kit), c)

----------------------------------------------------------------------------
(* The objects the passes start from *)

AnnotationKeys == {"operator.id", "integration-profile.id", "integration-profile.namespace"}

NoAnnotations == [k \in AnnotationKeys |-> ""]

Refs == { [storage |-> "configmap", name |-> "cm"], [storage |-> "secret", name |-> "sec"],
          [storage |-> "file", name |-> "f"], [storage |-> "invalid", name |-> ""] }

NoMount == [set |-> FALSE, hotReload |-> FALSE, configs |-> <<>>, resources |-> <<>>]

IntegrationSpec(rev, mount) == [rev |-> rev, mount |-> mount]

Conditions(ready, kitAvailable, available) ==
    [t \in ConditionTypes |->
        IF t = IntegrationConditionReady THEN ready
        ELSE IF t = IntegrationConditionKitAvailable THEN kitAvailable
        ELSE IF t = available THEN Condition(ConditionTrue, "Available", <<>>, <<>>)
        ELSE NoCond]

NewIntegration(phase, conditions, kit, annotations) ==
    [name |-> "it", annotations |-> annotations, spec |-> IntegrationSpec("new", NoMount),
     phase |-> phase, digest |-> [spec |-> Nil], kit |-> kit, conditions |-> conditions,
     replicas |-> <<>>, selector |-> <<>>]

\* the Integration with the digest of its present spec, or with the one of an older spec
WithDigest(i, c, fresh) ==
    LET rv == getIntegrationSecretAndConfigmapResourceVersions(i, c)
        old == [i EXCEPT !.spec.rev = "old"]
    IN  [i EXCEPT !.digest = IF fresh THEN ComputeForIntegration(i, rv.configmaps, rv.secrets)
                             ELSE ComputeForIntegration(old, rv.configmaps, rv.secrets)]

Kit(name, phase, labels, annotations, fits) ==
    [name |-> name, phase |-> phase, labels |-> labels, annotations |-> annotations, fits |-> fits]

Labelled(text) == [k \in {IntegrationKitPriorityLabel} |-> text]
Unlabelled == [k \in {} |-> <<>>]

OwnKit == Kit(1, IntegrationKitPhaseReady, Labelled(<<"0">>), NoAnnotations, TRUE)

\* the kits of a namespace: the Integration's own kit first, named by position
Named(kits) == [k \in 1..Len(kits) |-> [kits[k] EXCEPT !.name = k]]

Pod(deleting, scheduled, ready, init, main, spec, probe) ==
    [deleting |-> deleting,
     conditions |-> [t \in {PodScheduled, PodReady} |-> IF t = PodScheduled THEN scheduled ELSE ready],
     initContainerStatuses |-> init, containerStatuses |-> main, spec |-> spec, probe |-> probe]

Answer(err, parses, checks) == [err |-> err, parses |-> parses, checks |-> checks]

Check(name, status) == [name |-> name, status |-> status]

IntegrationContainer(httpGet) == [name |-> IntegrationContainerName, httpGet |-> httpGet]

Scheduled == PodCondition(ConditionTrue, "")
Ready == PodCondition(ConditionTrue, "")
Unready == PodCondition(ConditionFalse, "ContainersNotReady")
Started == ContainerState("running", "")
Creating == ContainerState("waiting", "ContainerCreating")

PendingPod == Pod(FALSE, Scheduled, Unready, <<>>, <<Creating>>,
                  <<IntegrationContainer(TRUE)>>, Answer(NoErr, TRUE, <<>>))
RunningPod == Pod(FALSE, Scheduled, Ready, <<>>, <<Started>>,
                  <<IntegrationContainer(TRUE)>>, Answer(NoErr, TRUE, <<>>))

Workload(kind, hasLabel, done, verdictErr, minReady) ==
    [kind |-> kind, hasLabel |-> hasLabel, done |-> done, verdictErr |-> verdictErr,
     minReady |-> minReady]

Deployment == Workload("Deployment", TRUE, FALSE, NoErr, 1)

BaseCluster ==
    [kits |-> <<OwnKit>>, resourceVersion |-> [r \in Refs |-> <<"1">>],
     digestErr |-> FALSE, lookupErr |-> FALSE, platformErr |-> FALSE, traitErr |-> FALSE,
     resources |-> <<Deployment>>, listPendingErr |-> FALSE, listRunningErr |-> FALSE,
     pendingPods |-> <<>>, runningPods |-> <<RunningPod>>]

----------------------------------------------------------------------------
(* The pod failure scan on its own *)

ScheduledConditions ==
    { NoCond, Scheduled, PodCondition(ConditionFalse, "Unschedulable"),
      PodCondition(ConditionFalse, "SchedulerError"), PodCondition(ConditionTrue, "Unschedulable") }

ContainerStates ==
    { Started, Creating, ContainerState("waiting", "ImagePullBackOff"),
      ContainerState("waiting", "CrashLoopBackOff"), ContainerState("terminated", "Error"),
      ContainerState("terminated", "Completed"), ContainerState("waiting", "Error") }

\* a pod with the given condition and one container, an init or a main one
ScanPod(deleting, scheduled, state, isInit) ==
    Pod(deleting, scheduled, Unready, IF isInit THEN <<state>> ELSE <<>>,
        IF isInit THEN <<>> ELSE <<state>>, <<IntegrationContainer(TRUE)>>, Answer(NoErr, TRUE, <<>>))

ScanPendingPods ==
    { ScanPod(FALSE, s, Creating, FALSE) : s \in ScheduledConditions }
    \cup { ScanPod(FALSE, Scheduled, st, isInit) : st \in ContainerStates, isInit \in BOOLEAN }

ScanRunningPods ==
    { ScanPod(d, Scheduled, st, isInit) : d \in BOOLEAN, st \in ContainerStates, isInit \in BOOLEAN }

\* the pending and running lists of at most MaxPods pods in all
PodLists(pendingShapes, runningShapes) ==
    UNION { SeqUpTo(pendingShapes, p) \X SeqUpTo(runningShapes, MaxPods - p) : p \in 0..MaxPods }

ScanIntegrations ==
    { NewIntegration(phase, Conditions(ready, NoCond, IntegrationConditionDeploymentAvailable),
                     OwnKit.name, NoAnnotations) :
        phase \in {IntegrationPhaseRunning, IntegrationPhaseError},
        ready \in {NoCond, Condition(ConditionTrue, "DeploymentReady", <<>>, <<>>)} }

InitScan ==
    /\ integration \in ScanIntegrations
    /\ \E lists \in PodLists(ScanPendingPods, ScanRunningPods) :
           cluster = [BaseCluster EXCEPT !.pendingPods = lists[1], !.runningPods = lists[2]]
    /\ op = "init"
    /\ pre = integration
    /\ res = Result(integration)

\* arePodsFailingStatuses applied to the Integration and the two pod lists
ScanPods ==
    /\ op = "init"
    /\ LET scan == arePodsFailingStatuses(integration, cluster.pendingPods, cluster.runningPods) IN
       /\ integration' = scan.integration
       /\ res' = [Result(scan.integration) EXCEPT !.failing = scan.failing]
    /\ op' = "arePodsFailingStatuses"
    /\ pre' = integration
    /\ UNCHANGED cluster

NextScan == ScanPods

SpecScan == InitScan /\ [][NextScan]_vars

----------------------------------------------------------------------------
(* The passes: the Integrations and clusters they start from *)

InitializationFailed ==
    Condition(ConditionFalse, IntegrationConditionInitializationFailedReason, <<"trait">>, <<>>)
DeploymentReady == Condition(ConditionTrue, "DeploymentReady", <<>>, <<>>)
KitUnavailable == Condition(ConditionFalse, "IntegrationKitAvailable", <<"kit error">>, <<>>)

\* every way a pass can go: phases, conditions, kit reference, digest, API errors
PathIntegrations ==
    { NewIntegration(phase, Conditions(ready, kitAvailable, available), kit, NoAnnotations) :
        phase \in {IntegrationPhaseDeploying, IntegrationPhaseRunning, IntegrationPhaseError},
        ready \in {NoCond, InitializationFailed, DeploymentReady},
        kitAvailable \in {NoCond, KitUnavailable},
        available \in {"none", IntegrationConditionDeploymentAvailable,
                       IntegrationConditionKnativeServiceAvailable,
                       IntegrationConditionCronJobAvailable},
        kit \in {NoKit.name, OwnKit.name, OwnKit.name + 1} }

PathClusters ==
    { BaseCluster,
      [BaseCluster EXCEPT !.kits[1].phase = IntegrationKitPhaseError],
      [BaseCluster EXCEPT !.kits[1].labels = Labelled(<<"h", "i">>)],
      [BaseCluster EXCEPT !.digestErr = TRUE],
      [BaseCluster EXCEPT !.lookupErr = TRUE],
      [BaseCluster EXCEPT !.platformErr = TRUE],
      [BaseCluster EXCEPT !.traitErr = TRUE],
      [BaseCluster EXCEPT !.listPendingErr = TRUE],
      [BaseCluster EXCEPT !.listRunningErr = TRUE],
      [BaseCluster EXCEPT !.resources = <<>>],
      [BaseCluster EXCEPT !.resources = <<Workload("Deployment", FALSE, FALSE, NoErr, 1)>>],
      [BaseCluster EXCEPT !.resources = <<Workload("KnativeService", TRUE, FALSE, NoErr, 1)>>],
      [BaseCluster EXCEPT !.resources = <<Workload("CronJob", TRUE, TRUE, NoErr, 0)>>],
      [BaseCluster EXCEPT !.resources = <<Workload("CronJob", FALSE, FALSE, NoErr, 1),
                                          Workload("Deployment", TRUE, FALSE, NoErr, 1)>>] }

InitPaths ==
    \E i \in PathIntegrations, c \in PathClusters, fresh \in BOOLEAN :
        /\ integration = WithDigest(i, c, fresh)
        /\ cluster = c

\* the pods of a pass and the verdict of the workload controller
Failing(err, checks) ==
    Pod(FALSE, Scheduled, Unready, <<>>, <<Started>>, <<IntegrationContainer(TRUE)>>,
        Answer(err, TRUE, checks))

PassPendingPods ==
    { PendingPod,
      [PendingPod EXCEPT !.conditions[PodScheduled] = PodCondition(ConditionFalse, "Unschedulable")],
      [PendingPod EXCEPT !.containerStatuses = <<ContainerState("waiting", "ImagePullBackOff")>>] }

PassRunningPods ==
    { RunningPod,
      [RunningPod EXCEPT !.deleting = TRUE],
      Failing(NoErr, <<>>),
      Failing(<<"DeadlineExceeded">>, <<>>),
      Failing(<<"Forbidden">>, <<>>),
      Failing(<<"ServiceUnavailable">>, <<>>),
      Failing(<<"ServiceUnavailable">>, <<Check("camel-routes", HealthCheckStatusDown)>>),
      Failing(<<"ServiceUnavailable">>, <<Check("context", HealthCheckStatusUp),
                                          Check("camel-routes", HealthCheckStatusDown)>>),
      [Failing(<<"ServiceUnavailable">>, <<>>) EXCEPT !.probe.parses = FALSE],
      [Failing(<<"ServiceUnavailable">>, <<>>) EXCEPT !.spec = <<[name |-> "sidecar", httpGet |-> TRUE]>>],
      [Failing(<<"ServiceUnavailable">>, <<>>) EXCEPT !.spec = <<IntegrationContainer(FALSE)>>],
      [Failing(NoErr, <<>>) EXCEPT !.containerStatuses = <<ContainerState("waiting", "CrashLoopBackOff")>>] }

PassWorkloads ==
    { Workload("Deployment", TRUE, FALSE, NoErr, 0),
      Workload("Deployment", TRUE, FALSE, NoErr, 1),
      Workload("Deployment", TRUE, TRUE, NoErr, 1),
      Workload("Deployment", TRUE, FALSE, <<"replica failure">>, 1) }

PodIntegrations ==
    { NewIntegration(phase, Conditions(DeploymentReady, NoCond, IntegrationConditionDeploymentAvailable),
                     OwnKit.name, NoAnnotations) :
        phase \in {IntegrationPhaseDeploying, IntegrationPhaseRunning, IntegrationPhaseError} }

InitPods ==
    \E i \in PodIntegrations, lists \in PodLists(PassPendingPods, PassRunningPods),
       w \in PassWorkloads :
        /\ cluster = [BaseCluster EXCEPT !.pendingPods = lists[1], !.runningPods = lists[2],
                                         !.resources = <<w>>]
        /\ integration = WithDigest(i, cluster, TRUE)

\* the kits of the namespace
KitLabels == { Unlabelled, Labelled(<<"0">>), Labelled(<<"3">>) }

OtherKits ==
    { Kit(0, IntegrationKitPhaseReady, Labelled(<<"0">>), NoAnnotations, TRUE),
      Kit(0, IntegrationKitPhaseReady, Labelled(<<"3">>), NoAnnotations, TRUE),
      Kit(0, IntegrationKitPhaseReady, Labelled(<<"5">>), NoAnnotations, TRUE),
      Kit(0, IntegrationKitPhaseBuilding, Labelled(<<"5">>), NoAnnotations, TRUE),
      Kit(0, IntegrationKitPhaseReady, Labelled(<<"5">>), NoAnnotations, FALSE),
      Kit(0, IntegrationKitPhaseReady, Labelled(<<"h", "i">>), NoAnnotations, TRUE),
      Kit(0, IntegrationKitPhaseReady, Unlabelled, NoAnnotations, TRUE) }

KitIntegration ==
    NewIntegration(IntegrationPhaseRunning,
                   Conditions(DeploymentReady, NoCond, IntegrationConditionDeploymentAvailable),
                   OwnKit.name, NoAnnotations)

InitKits ==
    \E labels \in KitLabels, others \in SeqUpTo(OtherKits, MaxKits) :
        /\ cluster = [BaseCluster EXCEPT
                          !.kits = Named(<<[OwnKit EXCEPT !.labels = labels]>> \o others)]
        /\ integration = WithDigest(KitIntegration, cluster, TRUE)

\* the annotations of the Integration and of its kit
AnnotationValues == {"", "a", "b"}

InitReset ==
    \E mine \in [AnnotationKeys -> AnnotationValues], its \in [AnnotationKeys -> AnnotationValues],
       ready \in {InitializationFailed, DeploymentReady}, fresh \in BOOLEAN :
        /\ cluster = [BaseCluster EXCEPT !.kits[1].annotations = its]
        /\ integration =
               WithDigest(NewIntegration(IntegrationPhaseError,
                              Conditions(ready, NoCond, IntegrationConditionDeploymentAvailable),
                              OwnKit.name, mine),
                          cluster, fresh)

----------------------------------------------------------------------------
(* The state machine *)

Init ==
    /\ InitPaths \/ InitPods \/ InitKits \/ InitReset
    /\ op = "init"
    /\ pre = integration
    /\ res = Result(integration)

\* one pass of the monitor action; the caller keeps the Integration it returns
HandlePass ==
    /\ CanHandle(integration)
    /\ LET r == Handle(integration, cluster) IN
       /\ res' = r
       /\ integration' = IF r.returned THEN r.integration ELSE integration
    /\ op' = "Handle"
    /\ pre' = integration
    /\ UNCHANGED cluster

Next == HandlePass

Spec == Init /\ [][Next]_vars

----------------------------------------------------------------------------
(* The digest check on its own *)

InitDigest ==
    /\ InitPaths \/ InitReset
    /\ op = "init"
    /\ pre = integration
    /\ res = Result(integration)

\* checkDigestAndRebuild applied to the Integration, with its kit or with none
CheckDigest ==
    /\ op = "init"
    /\ \E kit \in {NoKit, GetIntegrationKit(cluster, integration.kit)} :
           LET d == checkDigestAndRebuild(integration, kit, cluster) IN
           /\ integration' = d.integration
           /\ res' = [Result(d.integration) EXCEPT
                          !.returned = d.changed, !.err = d.err, !.changed = d.changed,
                          !.kitReset = d.kitReset, !.hash = d.hash, !.selected = kit,
                          !.steps = {"digest"}]
    /\ op' = "checkDigestAndRebuild"
    /\ pre' = integration
    /\ UNCHANGED cluster

NextDigest == CheckDigest

SpecDigest == InitDigest /\ [][NextDigest]_vars

----------------------------------------------------------------------------
(* C1: the pod failure scan *)

Scanned == op = "arePodsFailingStatuses"

SeqRange(seq) == { seq[k] : k \in 1..Len(seq) }

HasContainer(pod, state, reason) ==
    \E c \in SeqRange(Containers(pod)) : c.state = state /\ c.reason = reason

\* one of the four signals of the claim, on any pod
ExhibitsFailure(pod) ==
    \/ \E s \in {GetPodCondition(pod, PodScheduled)} :
           s # NoCond /\ s.status = ConditionFalse /\ s.reason = "Unschedulable"
    \/ HasContainer(pod, "waiting", "ImagePullBackOff")
    \/ HasContainer(pod, "waiting", "CrashLoopBackOff")
    \/ HasContainer(pod, "terminated", "Error")

ScannedPods ==
    SeqRange(cluster.pendingPods) \cup { p \in SeqRange(cluster.runningPods) : ~p.deleting }

\* the signals the scan looks for: each on the pods of one list only
PendingFailure(pod) ==
    \/ \E s \in {GetPodCondition(pod, PodScheduled)} :
           s # NoCond /\ s.status = ConditionFalse /\ s.reason = "Unschedulable"
    \/ HasContainer(pod, "waiting", "ImagePullBackOff")

RunningFailure(pod) ==
    /\ ~pod.deleting
    /\ \/ HasContainer(pod, "waiting", "CrashLoopBackOff")
       \/ HasContainer(pod, "terminated", "Error")

ScanOutcome(failing) ==
    /\ res.failing = failing
    /\ IF failing
       THEN /\ integration.phase = IntegrationPhaseError
            /\ GetCondition(integration, IntegrationConditionReady).status = ConditionFalse
       ELSE integration = pre

\* C1 as stated: arePodsFailingStatuses returns true and sets phase=Error exactly
\* when some pending or non-terminating running pod shows Unschedulable,
\* ImagePullBackOff, CrashLoopBackOff or a container terminated with Error, and
\* otherwise returns false and leaves the Integration untouched.
C1_AnyPodAnySignal ==
    Scanned => ScanOutcome(\E pod \in ScannedPods : ExhibitsFailure(pod))

\* C1 amended: arePodsFailingStatuses returns true and sets phase=Error (Ready
\* condition False) exactly when a pending pod is Unschedulable or has a container
\* waiting with ImagePullBackOff, or a non-terminating running pod has a container
\* waiting with CrashLoopBackOff or terminated with Error; otherwise it returns
\* false and leaves phase and conditions untouched.
C1_ScanPerList ==
    Scanned => ScanOutcome(\/ \E pod \in SeqRange(cluster.pendingPods) : PendingFailure(pod)
                           \/ \E pod \in SeqRange(cluster.runningPods) : RunningFailure(pod))

C1_Witness ==
    /\ Scanned
    /\ res.failing
    /\ pre.phase = IntegrationPhaseRunning
    /\ integration.phase = IntegrationPhaseError
    /\ \E pod \in SeqRange(cluster.runningPods) : pod.deleting /\ HasContainer(pod, "terminated", "Error")
    /\ \E pod \in SeqRange(cluster.runningPods) : RunningFailure(pod)

----------------------------------------------------------------------------
(* The passes: what the claims speak of *)

Passed == op = "Handle"

Went(step) == step \in res.steps

ReadyCondition(i) == GetCondition(i, IntegrationConditionReady)

\* the state Handle treats apart: phase Error, Ready False, InitializationFailed
InInitializationFailed(i) ==
    /\ i.phase = IntegrationPhaseError
    /\ ReadyCondition(i) # NoCond
    /\ ReadyCondition(i).status = ConditionFalse
    /\ ReadyCondition(i).reason = IntegrationConditionInitializationFailedReason

\* the digest of the Integration as the cluster stands
FreshDigest(i) ==
    LET merged == i.spec.mount.configs \o i.spec.mount.resources
        Versions(storage) ==
            IF i.spec.mount.set /\ i.spec.mount.hotReload
            THEN LET idx == SelectIdx([k \in 1..Len(merged) |-> merged[k].storage = storage],
                                      1, Len(merged))
                 IN  [k \in 1..Len(idx) |-> cluster.resourceVersion[merged[idx[k]]]]
            ELSE <<>>
    IN  [spec |-> i.spec, configmaps |-> Versions("configmap"), secrets |-> Versions("secret")]

\* the kit the Integration referred to when the operation started
KitOf(i) ==
    IF \E k \in 1..Len(cluster.kits) : cluster.kits[k].name = i.kit
    THEN cluster.kits[CHOOSE k \in 1..Len(cluster.kits) : cluster.kits[k].name = i.kit]
    ELSE NoKit

----------------------------------------------------------------------------
(* C2: a failed health check *)

\* the running pods whose probe answers 503 with a check that is not UP
HealthFailures ==
    { k \in 1..Len(cluster.runningPods) :
        LET pod == cluster.runningPods[k] IN
        /\ GetPodCondition(pod, PodReady).status # ConditionTrue
        /\ \E c \in SeqRange(pod.spec) : c.name = IntegrationContainerName /\ c.httpGet
        /\ pod.probe.err = <<"ServiceUnavailable">>
        /\ pod.probe.parses
        /\ \E check \in SeqRange(pod.probe.checks) : check.status # HealthCheckStatusUp }

\* C2: when a not-ready pod's probe answers 503 with a check that is not UP,
\* probeReadiness returns probeOk=false and the Ready condition ends the pass
\* False with the error reason and that pod's entry carrying the failing check.
C2_HealthFailureHasErrorReason ==
    (Passed /\ Went("probe") /\ res.probe.err = NoErr /\ HealthFailures # {})
    => /\ ~res.probe.probeOk
       /\ ReadyCondition(res.integration).status = ConditionFalse
       /\ ReadyCondition(res.integration).reason = IntegrationConditionErrorReason
       /\ \A k \in HealthFailures :
              \E check \in SeqRange(ReadyCondition(res.integration).pods[k].health) :
                  check.status # HealthCheckStatusUp

----------------------------------------------------------------------------
(* C3: the pass after a failure of the trait pipeline *)

TraitsFailed ==
    /\ Passed
    /\ Went("traits")
    /\ ~Went("controller")
    /\ res.returned
    /\ res.err # NoErr

\* C3: after a pass in which the trait pipeline failed, the next pass on the
\* resulting Integration (same spec, same digest) runs the trait pipeline again.
C3_NextPassRunsTraits ==
    [][(TraitsFailed /\ op' = "Handle") => ("traits" \in res'.steps)]_vars

----------------------------------------------------------------------------
(* C4: the reset of the kit reference *)

DigestChanged ==
    /\ op \in {"Handle", "checkDigestAndRebuild"}
    /\ Went("digest")
    /\ res.changed

\* the kit handed to checkDigestAndRebuild: none on the InitializationFailed path
PassedKit ==
    IF op = "checkDigestAndRebuild" THEN res.selected
    ELSE IF InInitializationFailed(pre) THEN NoKit
    ELSE KitOf(pre)

\* C4 as stated: on a digest change with a kit, the kit reference is cleared if
\* any of the three annotations differs between Integration and Kit, whatever
\* side sets it, and is not cleared when they are equal or no kit was passed.
C4_ResetOnAnyDifference ==
    DigestChanged =>
        (res.kitReset <=> /\ PassedKit # NoKit
                          /\ \E key \in AnnotationKeys :
                                 pre.annotations[key] # PassedKit.annotations[key])

\* C4 amended: on a digest change the kit reference is cleared exactly when a
\* kit was passed and one of the three annotations is set (non-empty) on the
\* Integration and differs from the Kit's; an annotation the Integration does
\* not carry never clears it.
C4_ResetOnOwnAnnotation ==
    DigestChanged =>
        /\ res.kitReset <=> /\ PassedKit # NoKit
                            /\ \E key \in AnnotationKeys :
                                   /\ pre.annotations[key] # ""
                                   /\ pre.annotations[key] # PassedKit.annotations[key]
        /\ res.kitReset => integration.kit = NoKit.name

C4_Witness ==
    /\ Passed
    /\ DigestChanged
    /\ res.kitReset
    /\ integration.kit = NoKit.name
    /\ pre.annotations["operator.id"] = PassedKit.annotations["operator.id"]
    /\ pre.annotations["integration-profile.id"] = PassedKit.annotations["integration-profile.id"]
    /\ pre.annotations["integration-profile.namespace"] = "a"
    /\ PassedKit.annotations["integration-profile.namespace"] = "b"

----------------------------------------------------------------------------
(* C5: the kit upgrade check *)

\* the priority a label stands for; a missing label counts as 0
PriorityOf(kit) ==
    IF IntegrationKitPriorityLabel \in DOMAIN kit.labels
    THEN Atoi(kit.labels[IntegrationKitPriorityLabel]).val
    ELSE 0

HasPriority(kit) ==
    /\ IntegrationKitPriorityLabel \in DOMAIN kit.labels
    /\ Atoi(kit.labels[IntegrationKitPriorityLabel]).ok

\* the ready kits that fit the Integration, with a priority above its own kit's
HigherReadyKits ==
    { kit \in SeqRange(cluster.kits) :
        /\ KitOf(pre) # NoKit
        /\ kit.fits
        /\ kit.phase = IntegrationKitPhaseReady
        /\ HasPriority(kit)
        /\ PriorityOf(kit) > PriorityOf(KitOf(pre)) }

\* C5: the upgrade check never switches to a kit that is not Ready or whose
\* priority is not above the current kit's (missing label counts as 0), and
\* when a Ready candidate with a higher priority exists it switches to the
\* Ready candidate with the greatest priority.
C5_UpgradeToHighestReadyKit ==
    Passed =>
        /\ integration.kit \in {pre.kit, NoKit.name} \cup { kit.name : kit \in HigherReadyKits }
        /\ Went("traits") =>
              IF HigherReadyKits = {}
              THEN res.selected = NoKit /\ res.integration.kit = pre.kit
              ELSE /\ res.selected \in HigherReadyKits
                   /\ \A kit \in HigherReadyKits : PriorityOf(kit) <= PriorityOf(res.selected)
                   /\ res.integration.kit = res.selected.name
                   /\ integration.kit = res.selected.name

\* candidate priorities [0,5,3] against a current priority of 0: the kit with 5
C5_Witness ==
    /\ Passed
    /\ Went("traits")
    /\ Len(cluster.kits) = 4
    /\ \A k \in 1..4 : cluster.kits[k].phase = IntegrationKitPhaseReady /\ cluster.kits[k].fits
    /\ [k \in 1..4 |-> Label(cluster.kits[k], IntegrationKitPriorityLabel)]
           = << <<"0">>, <<"0">>, <<"5">>, <<"3">> >>
    /\ pre.kit = 1
    /\ integration.kit = 3

----------------------------------------------------------------------------
(* C6: a changed digest ends the pass *)

\* C6: when the computed digest differs from the stored one, the pass clears
\* the kit reference if required, resets the Integration, stores the digest and
\* returns the Integration with no error, doing nothing else in that pass.
C6_DigestChangeEndsPass ==
    (Passed /\ Went("digest") /\ ~cluster.digestErr /\ FreshDigest(pre) # pre.digest)
    => /\ res.returned
       /\ res.err = NoErr
       /\ integration.digest = FreshDigest(pre)
       /\ integration.phase = IntegrationPhaseInitialization
       /\ integration.kit \in {pre.kit, NoKit.name}
       /\ res.kitReset <=> integration.kit # pre.kit
       /\ res.steps \subseteq {"kit", "digest"}
       /\ res.candidates = <<>>
       /\ res.probe = NoProbe

C6_Witness ==
    /\ Passed
    /\ Went("kit")
    /\ Went("digest")
    /\ pre.phase = IntegrationPhaseRunning
    /\ pre.digest # FreshDigest(pre)
    /\ integration.digest = FreshDigest(pre)
    /\ integration.digest # pre.digest

----------------------------------------------------------------------------
(* C7: an unchanged digest *)

\* C7: for an Integration whose stored digest equals the computed one,
\* checkDigestAndRebuild returns (nil, nil) and changes nothing on it.
C7_SameDigestIsNoOp ==
    (op = "checkDigestAndRebuild" /\ ~cluster.digestErr /\ FreshDigest(pre) = pre.digest)
    => /\ ~res.returned
       /\ res.err = NoErr
       /\ integration = pre

C7_Witness ==
    /\ op = "checkDigestAndRebuild"
    /\ FreshDigest(pre) = pre.digest
    /\ ~cluster.digestErr
    /\ res.selected # NoKit
    /\ pre.annotations["operator.id"] = "a"
    /\ res.selected.annotations["operator.id"] = "b"
    /\ integration = pre

----------------------------------------------------------------------------
(* C8: the InitializationFailed state *)

\* C8: a pass on an Integration in the InitializationFailed state performs the
\* digest check only and returns its result; a missing kit is no error there.
C8_InitializationFailedChecksDigestOnly ==
    (Passed /\ InInitializationFailed(pre))
    => /\ res.steps = {"digest"}
       /\ res.selected = NoKit
       /\ ~res.kitReset
       /\ res.err = IF cluster.digestErr THEN <<"digest">> ELSE NoErr
       /\ res.returned <=> (~cluster.digestErr /\ FreshDigest(pre) # pre.digest)
       /\ ~res.returned => integration = pre

C8_Witness ==
    /\ Passed
    /\ InInitializationFailed(pre)
    /\ pre.kit = NoKit.name
    /\ res.steps = {"digest"}
    /\ res.err = NoErr
    /\ res.returned

----------------------------------------------------------------------------
(* C9: a failure of the trait pipeline *)

\* C9: when the trait pipeline fails, the pass sets phase=Error and the Ready
\* condition to False with reason InitializationFailed and the error text, and
\* returns the Integration and the error without resolving a controller.
C9_TraitFailureIsInitializationFailed ==
    (Passed /\ Went("traits") /\ (cluster.platformErr \/ cluster.traitErr))
    => /\ res.returned
       /\ res.err # NoErr
       /\ integration.phase = IntegrationPhaseError
       /\ ReadyCondition(integration).status = ConditionFalse
       /\ ReadyCondition(integration).reason = IntegrationConditionInitializationFailedReason
       /\ ReadyCondition(integration).message = res.err
       /\ res.steps \cap {"controller", "list", "census", "verdict", "scan", "probe", "threshold"} = {}
       /\ integration.replicas = pre.replicas
       /\ integration.selector = pre.selector

C9_Witness ==
    /\ Passed
    /\ Went("traits")
    /\ cluster.traitErr
    /\ pre.phase = IntegrationPhaseRunning
    /\ ReadyCondition(pre) = DeploymentReady
    /\ integration.phase = IntegrationPhaseError
    /\ res.err # NoErr

----------------------------------------------------------------------------
(* C10: the phase after a successful readiness reconciliation *)

\* the kind of workload the conditions of the Integration announce
AvailableKind(i) ==
    IF GetCondition(i, IntegrationConditionDeploymentAvailable).status = ConditionTrue
    THEN "Deployment"
    ELSE IF GetCondition(i, IntegrationConditionKnativeServiceAvailable).status = ConditionTrue
    THEN "KnativeService"
    ELSE "CronJob"

\* the workload object the pass resolved its controller from
PassWorkload ==
    cluster.resources[CHOOSE k \in 1..Len(cluster.resources) :
                          /\ cluster.resources[k].kind = AvailableKind(pre)
                          /\ \A j \in 1..(k - 1) : cluster.resources[j].kind # AvailableKind(pre)]

\* no terminal verdict, no failing pod, probe ok, threshold met
ReadinessMet ==
    /\ Passed
    /\ Went("census")
    /\ ~PassWorkload.done
    /\ PassWorkload.verdictErr = NoErr
    /\ \A pod \in SeqRange(cluster.pendingPods) : ~PendingFailure(pod)
    /\ \A pod \in SeqRange(cluster.runningPods) : ~RunningFailure(pod)
    /\ res.probe.err = NoErr
    /\ res.probe.probeOk
    /\ res.probe.readyPods >= PassWorkload.minReady

\* C10: a pass with no terminal verdict, no failing pod, probeOk=true and
\* updateReadyCondition(readyPods)=true ends with phase Running, whatever the
\* phase was at its start.
C10_ReadyPassEndsRunning ==
    ReadinessMet
    => /\ res.returned
       /\ res.err = NoErr
       /\ integration.phase = IntegrationPhaseRunning

C10_Witness ==
    /\ ReadinessMet
    /\ pre.phase = IntegrationPhaseDeploying
    /\ cluster.pendingPods = <<>>
    /\ cluster.runningPods = <<RunningPod>>
    /\ res.probe.readyPods = 1
    /\ integration.phase = IntegrationPhaseRunning

----------------------------------------------------------------------------
(* C11: an unschedulable pending pod *)

Unplaced(pod) ==
    /\ GetPodCondition(pod, PodScheduled) # NoCond
    /\ GetPodCondition(pod, PodScheduled).status = ConditionFalse
    /\ GetPodCondition(pod, PodScheduled).reason = "Unschedulable"

\* the pods the census counts: the pending ones and the running ones not being deleted
Census ==
    Len(cluster.pendingPods) + Cardinality({k \in 1..Len(cluster.runningPods) :
                                               ~cluster.runningPods[k].deleting})

\* the message of the first pending pod the scheduler could not place
SchedulerMessage ==
    GetPodCondition(cluster.pendingPods[CHOOSE k \in 1..Len(cluster.pendingPods) :
                                            /\ Unplaced(cluster.pendingPods[k])
                                            /\ \A j \in 1..(k - 1) : ~Unplaced(cluster.pendingPods[j])],
                    PodScheduled).message

\* a pass from Deploying that reaches the readiness reconciliation with no
\* terminal verdict of the controller and an unschedulable pending pod
UnschedulablePass ==
    /\ Passed
    /\ Went("census")
    /\ pre.phase = IntegrationPhaseDeploying
    /\ ~PassWorkload.done
    /\ PassWorkload.verdictErr = NoErr
    /\ \E pod \in SeqRange(cluster.pendingPods) : Unplaced(pod)

\* C11: a pass on a Deploying Integration with an Unschedulable pending pod and no
\* terminal controller verdict returns the Integration with no error, phase Error,
\* Ready False carrying the scheduler's message, and replicas set from the census.
C11_UnschedulableIsStatusNotError ==
    UnschedulablePass
    => /\ res.returned
       /\ res.err = NoErr
       /\ res.failing
       /\ integration.phase = IntegrationPhaseError
       /\ ReadyCondition(integration).status = ConditionFalse
       /\ ReadyCondition(integration).message = SchedulerMessage
       /\ integration.replicas = <<Census>>

C11_Witness ==
    /\ UnschedulablePass
    /\ Len(cluster.pendingPods) = 1
    /\ cluster.runningPods = <<>>
    /\ integration.phase = IntegrationPhaseError
    /\ integration.replicas = <<1>>
    /\ res.err = NoErr

----------------------------------------------------------------------------
(* C12: a probe that times out or fails without a 503 *)

\* the pod is not ready and its integration container has an HTTP readiness probe
Probed(pod) ==
    /\ GetPodCondition(pod, PodReady).status # ConditionTrue
    /\ \E c \in SeqRange(pod.spec) : c.name = IntegrationContainerName
    /\ LET first == CHOOSE k \in 1..Len(pod.spec) :
                        /\ pod.spec[k].name = IntegrationContainerName
                        /\ \A j \in 1..(k - 1) : pod.spec[j].name # IntegrationContainerName
       IN  pod.spec[first].httpGet

\* the running pods whose probe times out, and those whose probe fails otherwise
ProbeTimeouts ==
    { k \in 1..Len(cluster.runningPods) :
        Probed(cluster.runningPods[k]) /\ cluster.runningPods[k].probe.err = <<"DeadlineExceeded">> }

ProbeErrors ==
    { k \in 1..Len(cluster.runningPods) :
        /\ Probed(cluster.runningPods[k])
        /\ cluster.runningPods[k].probe.err \notin {NoErr, <<"DeadlineExceeded">>, <<"ServiceUnavailable">>} }

\* the pods of the running list by their PodReady condition
UnreadyPods ==
    Cardinality({ k \in 1..Len(cluster.runningPods) :
                    GetPodCondition(cluster.runningPods[k], PodReady).status # ConditionTrue })

\* the probe ran over every pod and some probe timed out or failed without a 503
ProbeFailedPass ==
    /\ Passed
    /\ Went("probe")
    /\ res.probe.err = NoErr
    /\ ProbeTimeouts \cup ProbeErrors # {}

----------------------------------------------------------------------------
(* C13: a workload template without the integration label *)

AvailableTypes ==
    { IntegrationConditionDeploymentAvailable, IntegrationConditionKnativeServiceAvailable,
      IntegrationConditionCronJobAvailable }

\* one of the three conditions is True and the resources hold an object of its kind
ControllerResolved ==
    /\ Passed
    /\ Went("controller")
    /\ \E t \in AvailableTypes : GetCondition(pre, t).status = ConditionTrue
    /\ \E k \in 1..Len(cluster.resources) : cluster.resources[k].kind = AvailableKind(pre)

MissingLabelPass == ControllerResolved /\ ~PassWorkload.hasLabel

\* C13: when the resolved controller's template lacks the integration label, the
\* pass sets Ready to False with the monitoring-pods-available reason, returns the
\* Integration with no error and stops: phase, replicas and selector stay as they
\* were and no pod is listed, scanned or probed.
C13_MissingLabelStopsThePass ==
    MissingLabelPass
    => /\ res.returned
       /\ res.err = NoErr
       /\ ReadyCondition(integration).status = ConditionFalse
       /\ ReadyCondition(integration).reason = IntegrationConditionMonitoringPodsAvailableReason
       /\ integration.phase = pre.phase
       /\ integration.replicas = pre.replicas
       /\ integration.selector = pre.selector
       /\ res.steps \cap {"list", "census", "verdict", "scan", "probe", "threshold"} = {}
       /\ res.probe = NoProbe
       /\ ~res.failing

C13_Witness ==
    /\ MissingLabelPass
    /\ pre.phase = IntegrationPhaseDeploying
    /\ ReadyCondition(pre) = DeploymentReady
    /\ ReadyCondition(integration).reason = IntegrationConditionMonitoringPodsAvailableReason
    /\ integration.phase = IntegrationPhaseDeploying

----------------------------------------------------------------------------
(* C14: the Integration and its kit both in error *)

\* the pass read the kit of the Integration and the kit's phase is Error; the
\* Integration is not in the InitializationFailed state Handle treats first
KitInError ==
    /\ Passed
    /\ ~InInitializationFailed(pre)
    /\ KitOf(pre) # NoKit
    /\ KitOf(pre).phase = IntegrationKitPhaseError

KitAvailableFalse(i) ==
    /\ GetCondition(i, IntegrationConditionKitAvailable) # NoCond
    /\ GetCondition(i, IntegrationConditionKitAvailable).status = ConditionFalse

\* C14: whenever the Integration is in an error state (phase Error) with its
\* KitAvailable condition False and the resolved kit's phase is Error, Handle
\* returns (nil, nil), leaves the Integration untouched, and performs no digest
\* check, kit upgrade, trait run or pod census.
C14_BothInErrorIsNoOp ==
    (KitInError /\ pre.phase = IntegrationPhaseError /\ KitAvailableFalse(pre))
    => /\ ~res.returned
       /\ res.err = NoErr
       /\ res.integration = pre
       /\ integration = pre
       /\ res.steps = {"kit"}

----------------------------------------------------------------------------
(* C15: the controller cannot be resolved *)

\* the pass reached the resolution of the controller and either none of the three
\* conditions is True or the resources hold no object of the announced kind
ControllerUnresolved ==
    /\ Passed
    /\ Went("controller")
    /\ \/ \A t \in AvailableTypes : GetCondition(pre, t).status # ConditionTrue
       \/ \A k \in 1..Len(cluster.resources) : cluster.resources[k].kind # AvailableKind(pre)

\* C15: when no Deployment-, KnativeService- or CronJob-available condition is
\* True, or the True one has no object of its kind among the resources of the
\* trait pipeline, Handle returns no Integration and an error, performs no pod
\* census and sets no Ready condition, replicas or selector.
C15_UnresolvedControllerIsFatal ==
    ControllerUnresolved
    => /\ ~res.returned
       /\ res.err # NoErr
       /\ integration = pre
       /\ ReadyCondition(res.integration) = ReadyCondition(pre)
       /\ res.integration.replicas = pre.replicas
       /\ res.integration.selector = pre.selector
       /\ res.integration.phase = pre.phase
       /\ res.steps \cap {"list", "census", "verdict", "scan", "probe", "threshold"} = {}

\* the Deployment is announced and the resources hold a Knative service only
C15_Witness ==
    /\ ControllerUnresolved
    /\ GetCondition(pre, IntegrationConditionDeploymentAvailable).status = ConditionTrue
    /\ cluster.resources # <<>>
    /\ res.err = <<"type assertion failed, not a", "Deployment">>
    /\ ~res.returned

----------------------------------------------------------------------------
(* C16: a terminal verdict of the controller *)

\* the pass reached the readiness reconciliation and checkReadyCondition answered
\* done=true or an error
TerminalVerdict ==
    /\ Passed
    /\ Went("verdict")
    /\ PassWorkload.done \/ PassWorkload.verdictErr # NoErr

\* the phase monitorPods hands to the readiness reconciliation
CensusPhase ==
    IF pre.phase = IntegrationPhaseDeploying THEN IntegrationPhaseRunning ELSE pre.phase

\* C16: after a terminal verdict (done=true or an error) the probe runs for
\* observability only: its error and its probeOk are ignored, the pod failure scan
\* and the threshold test are skipped, the readiness reconciliation leaves the
\* phase alone, and the pass returns exactly the error of the verdict.
C16_TerminalVerdictProbesOnly ==
    TerminalVerdict
    => /\ res.terminal
       /\ res.steps \cap {"probe", "scan", "threshold"} = {"probe"}
       /\ res.probe # NoProbe
       /\ ~res.failing
       /\ ~res.met
       /\ res.err = PassWorkload.verdictErr
       /\ res.returned <=> (PassWorkload.verdictErr = NoErr)
       /\ res.integration.phase = CensusPhase

\* the probe fails, a pending pod is unschedulable, and the pass still returns the
\* Integration without error and in phase Running
C16_Witness ==
    /\ TerminalVerdict
    /\ PassWorkload.verdictErr = NoErr
    /\ res.probe.err # NoErr
    /\ \E pod \in SeqRange(cluster.pendingPods) : Unplaced(pod)
    /\ res.returned
    /\ res.err = NoErr
    /\ pre.phase = IntegrationPhaseDeploying
    /\ integration.phase = IntegrationPhaseRunning

----------------------------------------------------------------------------
(* The selection of the kit on its own *)

CandidateKits ==
    { Kit(0, phase, labels, NoAnnotations, TRUE) :
        phase \in {IntegrationKitPhaseReady, IntegrationKitPhaseBuilding, IntegrationKitPhaseError},
        labels \in {Unlabelled, Labelled(<<"0">>), Labelled(<<"3">>), Labelled(<<"1", "0">>),
                    Labelled(<<"h", "i">>), Labelled(<<"3", "x">>)} }

InitFind ==
    /\ integration = KitIntegration
    /\ \E kits \in SeqUpTo(CandidateKits, MaxKits) : cluster = [BaseCluster EXCEPT !.kits = Named(kits)]
    /\ op = "init"
    /\ pre = integration
    /\ res = Result(integration)

\* findHighestPriorityReadyKit applied to the kits of the cluster as candidates
FindKit ==
    /\ op = "init"
    /\ LET found == findHighestPriorityReadyKit(cluster.kits) IN
       res' = [res EXCEPT !.candidates = cluster.kits, !.selected = found.kit,
                          !.err = IF found.ok THEN NoErr ELSE <<"invalid priority label">>,
                          !.steps = {"upgrade"}]
    /\ op' = "findHighestPriorityReadyKit"
    /\ pre' = integration
    /\ UNCHANGED <<integration, cluster>>

NextFind == FindKit

SpecFind == InitFind /\ [][NextFind]_vars

----------------------------------------------------------------------------
(* C17: a malformed priority label among the candidates *)

Found == op = "findHighestPriorityReadyKit"

\* the label is missing or is not a decimal integer
Malformed(kit) == ~HasPriority(kit)

\* C17 as stated: a malformed priority label on any kit of the candidate set makes
\* findHighestPriorityReadyKit return (nil, error), whatever the set and the
\* position of the kit; the empty set gives (nil, nil).
C17_AnyMalformedLabelIsFatal ==
    Found
    => /\ (\E kit \in SeqRange(res.candidates) : Malformed(kit))
              => (res.err # NoErr /\ res.selected = NoKit)
       /\ res.candidates = <<>> => (res.err = NoErr /\ res.selected = NoKit)

\* C17 amended: findHighestPriorityReadyKit returns (nil, error) exactly when some
\* candidate in phase Ready has a malformed priority label, at whatever position;
\* a candidate that is not Ready is skipped without its label being read; the
\* empty set gives (nil, nil).
C17_MalformedReadyLabelIsFatal ==
    Found
    => /\ res.err # NoErr
              <=> \E kit \in SeqRange(res.candidates) :
                      kit.phase = IntegrationKitPhaseReady /\ Malformed(kit)
       /\ res.err # NoErr => res.selected = NoKit
       /\ res.candidates = <<>> => (res.err = NoErr /\ res.selected = NoKit)

\* a ready kit with a malformed label in the last position, after a ready kit
\* the loop had already selected
C17_Witness ==
    /\ Found
    /\ Len(res.candidates) = 3
    /\ res.candidates[1].phase = IntegrationKitPhaseReady
    /\ Label(res.candidates[1], IntegrationKitPriorityLabel) = <<"3">>
    /\ res.candidates[2].phase = IntegrationKitPhaseBuilding /\ Malformed(res.candidates[2])
    /\ res.candidates[3].phase = IntegrationKitPhaseReady /\ Malformed(res.candidates[3])
    /\ res.err # NoErr
    /\ res.selected = NoKit

----------------------------------------------------------------------------
(* The digest of an Integration with mounted configmaps and secrets *)

MountRefs ==
    Refs \cup { [storage |-> "configmap", name |-> "cm2"], [storage |-> "secret", name |-> "sec2"] }

\* every object of the cluster has a resource version of its own
MountVersions == [r \in MountRefs |-> <<"v", r.storage, r.name>>]

MountResources ==
    { <<>>, <<[storage |-> "secret", name |-> "sec2"] >>,
      <<[storage |-> "configmap", name |-> "cm2"], [storage |-> "secret", name |-> "sec"] >> }

MountedIntegration(hotReload, configs, resources) ==
    [KitIntegration EXCEPT !.spec.mount = [set |-> TRUE, hotReload |-> hotReload,
                                           configs |-> configs, resources |-> resources]]

InitMounts ==
    /\ cluster = [BaseCluster EXCEPT !.resourceVersion = MountVersions]
    /\ \E hotReload \in BOOLEAN, configs \in SeqUpTo(MountRefs, MaxMounts),
          resources \in MountResources :
           integration = WithDigest(MountedIntegration(hotReload, configs, resources), cluster, TRUE)
    /\ op = "init"
    /\ pre = integration
    /\ res = Result(integration)

\* the same references in another order
Reorderings(seq) ==
    { [k \in 1..Len(seq) |-> seq[p[k]]] :
        p \in { q \in [1..Len(seq) -> 1..Len(seq)] : \A a, b \in 1..Len(seq) : a # b => q[a] # q[b] } }

\* the user lists the same references of the mount trait in another order
Relist ==
    /\ op = "init"
    /\ \E configs \in Reorderings(integration.spec.mount.configs),
          resources \in Reorderings(integration.spec.mount.resources) :
           /\ <<configs, resources>> # <<integration.spec.mount.configs, integration.spec.mount.resources>>
           /\ integration' = [integration EXCEPT !.spec.mount.configs = configs,
                                                 !.spec.mount.resources = resources]
    /\ op' = "relist"
    /\ pre' = integration
    /\ res' = [res EXCEPT !.steps = {"relist"}]
    /\ UNCHANGED cluster

\* an object of the cluster is updated and gets a new resource version
Touch ==
    /\ op = "init"
    /\ \E r \in MountRefs :
           /\ cluster' = [cluster EXCEPT !.resourceVersion[r] = <<"w", r.storage, r.name>>]
           /\ res' = [res EXCEPT !.steps = {"touch", r.storage, r.name}]
    /\ op' = "touch"
    /\ pre' = integration
    /\ UNCHANGED integration

\* the digest check of the next pass
Recheck ==
    /\ op \in {"relist", "touch"}
    /\ LET d == checkDigestAndRebuild(integration, GetIntegrationKit(cluster, integration.kit), cluster) IN
       /\ integration' = d.integration
       /\ res' = [res EXCEPT !.returned = d.changed, !.err = d.err, !.changed = d.changed,
                             !.kitReset = d.kitReset, !.hash = d.hash, !.integration = d.integration,
                             !.steps = @ \cup {"digest"}]
    /\ op' = "checkDigestAndRebuild"
    /\ pre' = integration
    /\ UNCHANGED cluster

NextMounts == Relist \/ Touch \/ Recheck

SpecMounts == InitMounts /\ [][NextMounts]_vars

----------------------------------------------------------------------------
(* C18: the order of the watched configmaps and secrets *)

Rechecked(change) == op = "checkDigestAndRebuild" /\ {change, "digest"} \subseteq res.steps

\* the configmaps and secrets the digest watches: those mounted with hot reload
Watched(i) ==
    IF i.spec.mount.set /\ i.spec.mount.hotReload
    THEN { r \in SeqRange(i.spec.mount.configs \o i.spec.mount.resources) :
             r.storage \in {"configmap", "secret"} }
    ELSE {}

\* C18: listing the same configmap and secret references of the mount trait in
\* another order, with the same resource versions, never changes the digest and
\* never triggers a reset, while a new resource version of any watched configmap
\* or secret does change the digest.
C18_DigestIgnoresOrder ==
    /\ (Rechecked("relist") /\ Watched(pre) # {})
           => /\ ~res.changed
              /\ res.hash = pre.digest
              /\ integration = pre
    /\ (Rechecked("touch") /\ \E r \in Watched(pre) : {r.storage, r.name} \subseteq res.steps)
           => /\ res.changed
              /\ res.hash # pre.digest

----------------------------------------------------------------------------
(* C19: the conditions a pass does not set *)

\* the types of condition Handle and its helpers never write: all but Ready
UnrelatedTypes == DOMAIN pre.conditions \ {IntegrationConditionReady}

----------------------------------------------------------------------------
(* C20: the replicas and the selector after the pod census *)

\* C20: every pass that completes the pod census sets status.replicas to the
\* number of pending pods plus the number of running pods without a deletion
\* timestamp, and status.selector to the integration label key, "=" and the name
\* of the Integration; a running pod that is being deleted is never counted.
C20_CensusSetsReplicasAndSelector ==
    (Passed /\ Went("census"))
    => /\ res.integration.replicas = <<Census>>
       /\ res.integration.selector = <<IntegrationLabel, "=", pre.name>>
       /\ res.returned => /\ integration.replicas = <<Census>>
                          /\ integration.selector = <<IntegrationLabel, "=", pre.name>>

\* one pending pod, one running pod being deleted: one replica
C20_Witness ==
    /\ Passed
    /\ Went("census")
    /\ res.returned
    /\ Len(cluster.pendingPods) = 1
    /\ Len(cluster.runningPods) = 1
    /\ cluster.runningPods[1].deleting
    /\ pre.replicas = <<>>
    /\ integration.replicas = <<1>>
    /\ integration.selector = <<IntegrationLabel, "=", "it">>

----------------------------------------------------------------------------
(* C21: the count of ready pods *)

IsReady(pod) == GetPodCondition(pod, PodReady).status = ConditionTrue

\* the pods of the running list that are Ready, among the first n
ReadyAmong(n) == Cardinality({ k \in 1..n : IsReady(cluster.runningPods[k]) })

\* a pod that makes probeReadiness return an error: no integration container, or
\* a 503 whose body does not parse
EndsProbe(pod) ==
    /\ ~IsReady(pod)
    /\ \/ \A c \in SeqRange(pod.spec) : c.name # IntegrationContainerName
       \/ Probed(pod) /\ pod.probe.err = <<"ServiceUnavailable">> /\ ~pod.probe.parses

\* the position of the first such pod, or the length of the list
BeforeProbeEnd ==
    IF \E k \in 1..Len(cluster.runningPods) : EndsProbe(cluster.runningPods[k])
    THEN (CHOOSE k \in 1..Len(cluster.runningPods) :
              /\ EndsProbe(cluster.runningPods[k])
              /\ \A j \in 1..(k - 1) : ~EndsProbe(cluster.runningPods[j])) - 1
    ELSE Len(cluster.runningPods)

\* some pod is not ready, and every pod that is not ready has a probe that
\* answers without error
WarmingUp ==
    /\ \E pod \in SeqRange(cluster.runningPods) : ~IsReady(pod)
    /\ \A pod \in SeqRange(cluster.runningPods) :
           ~IsReady(pod) => (Probed(pod) /\ pod.probe.err = NoErr)

\* what the claim says of a pod that is warming up
WarmPodsAreNoFailure ==
    WarmingUp
    => /\ res.probe.err = NoErr
       /\ res.probe.probeOk
       /\ ~res.probe.runtimeFailed
       /\ res.probe.readyPods = ReadyAmong(Len(cluster.runningPods))
       /\ ReadyCondition(res.integration) = ReadyCondition(pre)

\* C21 as stated: the readyPods probeReadiness returns is exactly the number of
\* input pods whose PodReady condition is True; a not-ready pod whose probe
\* returns no error is not counted, is no failure, and by itself leaves
\* probeOk=true and the Ready condition as it was.
C21_ReadyPodsIsReadyCount ==
    (Passed /\ Went("probe"))
    => /\ res.probe.readyPods = ReadyAmong(Len(cluster.runningPods))
       /\ WarmPodsAreNoFailure

\* C21 amended: when probeReadiness returns no error, readyPods is exactly the
\* number of input pods whose PodReady condition is True; when it returns an
\* error, readyPods is the number of such pods before the pod that caused the
\* error; a not-ready pod whose probe returns no error is not counted, is no
\* failure, and by itself leaves probeOk=true and the Ready condition as it was.
C21_ReadyPodsUpToError ==
    (Passed /\ Went("probe"))
    => /\ res.probe.err = NoErr <=> BeforeProbeEnd = Len(cluster.runningPods)
       /\ res.probe.readyPods = ReadyAmong(BeforeProbeEnd)
       /\ WarmPodsAreNoFailure

\* a ready pod and a pod that is warming up: one ready pod, probeOk
C21_Witness ==
    /\ Passed
    /\ Went("probe")
    /\ WarmingUp
    /\ Len(cluster.runningPods) = 2
    /\ res.probe.readyPods = 1
    /\ res.probe.probeOk
    /\ ReadyCondition(res.integration) = ReadyCondition(pre)

----------------------------------------------------------------------------
(* C22: the phase of a Deploying Integration after the pod census *)

\* a pass on a Deploying Integration that completes the census and returns the
\* Integration without error
DeployingPass ==
    /\ Passed
    /\ pre.phase = IntegrationPhaseDeploying
    /\ Went("census")
    /\ res.returned
    /\ res.err = NoErr

\* the readiness reconciliation found a failing pod or a failed probe
ReconciledToError ==
    /\ ~res.terminal
    /\ res.failing \/ (Went("probe") /\ ~res.probe.probeOk)

\* C22: a pass on a Deploying Integration that completes the pod census without
\* error never returns it in Deploying: the phase is Running, unless a failing pod
\* or a failed probe made it Error, and it stays Running when updateReadyCondition
\* answers false.
C22_DeployingNeverReturned ==
    DeployingPass
    => /\ integration.phase # IntegrationPhaseDeploying
       /\ integration.phase = IF ReconciledToError THEN IntegrationPhaseError
                              ELSE IntegrationPhaseRunning
       /\ (Went("threshold") /\ ~res.met) => integration.phase = IntegrationPhaseRunning

\* no ready pod, a threshold of one ready pod, and the phase is Running
C22_Witness ==
    /\ DeployingPass
    /\ Went("threshold")
    /\ ~res.met
    /\ res.probe.readyPods = 0
    /\ PassWorkload.minReady = 1
    /\ integration.phase = IntegrationPhaseRunning

----------------------------------------------------------------------------
(* C23: the ready pods and the replicas of one pass *)

\* C23: in every pass the count of ready pods that probeReadiness computes and
\* that is handed to updateReadyCondition is at most the status.replicas the pod
\* census of the same pass has set.
C23_ReadyPodsWithinReplicas ==
    (Passed /\ Went("threshold"))
    => /\ res.integration.replicas # <<>>
       /\ res.probe.readyPods <= res.integration.replicas[1]

====
